---- MODULE Spec2Model ----
(***************************************************************************)
(* Decision core of the honeypot agent: the LLM call gate                  *)
(* (services/llm_load_control.py), the engagement finalizer                *)
(* (services/engagement_policy.py) and the behavior analyzer               *)
(* (agent/behavior_analyzer.py).                                           *)
(*                                                                         *)
(* Time is counted in ticks of 1/UnitsPerSecond second, so that a float    *)
(* timestamp has a fractional part and int() has something to truncate.    *)
(* Scores and confidences are counted in thousandths (7.35 is 7350).       *)
(***************************************************************************)
EXTENDS Integers, Sequences, FiniteSets, TLC

VARIABLES
    clock,          \* time.time(), in ticks; it never goes backward here
    \* ---- LLMCallGate fields
    enabled,        \* self._enabled
    global_limit,   \* self._global_limit
    stage_limits,   \* self._stage_limits
    behavior_sample_n,  \* self._behavior_sample_n
    calls,          \* self._calls : queue name -> deque of timestamps
    dropped,        \* self._dropped : stage -> int
    lock,           \* self._lock : the thread holding it, or NoThread
    \* ---- threads calling allow() / snapshot() on the one gate
    th,             \* per thread: position and locals of the call in progress
    \* ---- history of the gate (not program state)
    recent,         \* timestamp and stage of the calls that returned True,
                    \* while they are within the window of the clock
    admitted,       \* stage -> number of calls that returned True
    denied,         \* stage -> number of calls the window denied
    pruned,         \* queue name -> number of timestamps popped by _prune
    \* ---- one engagement (models.session.SessionState, as should_finalize reads it)
    session,
    verdict,        \* what should_finalize returned for the session as it is
                    \* now: <<>> when it has not been evaluated since a change
    returned_true,  \* history: some evaluation of this session returned True
    true_evals,     \* history: how many evaluations returned True (counted
                    \* up to MaxTrueEvals)
    strat,          \* one call of infer_strategy_state on the session, and a
                    \* second one that differs in rolling_score only
    \* ---- one call of BehaviorAnalyzer.analyze
    an              \* its arguments, position, locals and result

gateVars == <<enabled, global_limit, stage_limits, behavior_sample_n,
              calls, dropped, lock, th, recent, admitted, denied, pruned>>

sessionVars == <<session, verdict, returned_true, true_evals, strat>>

vars == <<clock, gateVars, sessionVars, an>>

----------------------------------------------------------------------------
(* Bounds of the model *)

UnitsPerSecond == 2
MaxSeconds == 120
MaxCalls == 3
MaxIndex == 7

(* Program constants *)

WINDOW_SECONDS == 60

Window == WINDOW_SECONDS * UnitsPerSecond
MaxClock == MaxSeconds * UnitsPerSecond
GateTickStep == WINDOW_SECONDS * UnitsPerSecond

----------------------------------------------------------------------------
(* LLMCallGate *)

Stages == {"reply", "behavior", "extraction"}
QueueNames == {"global"} \cup Stages
StageInputs == Stages \cup {"summary"}
IndexInputs == (0 - 1)..MaxIndex

Threads == {"t1", "t2"}
NoThread == "none"

Max_NoCoercion(a, b) == b

Max(a, b) == IF a >= b THEN a ELSE b
Min(a, b) == IF a <= b THEN a ELSE b

\* The constructor arguments the gate is built from.
GateConfigs ==
    { [enabled |-> TRUE, global_rpm_limit |-> 2, reply_rpm_limit |-> 1,
       behavior_rpm_limit |-> 2, extraction_rpm_limit |-> 2, sample_n |-> 3],
      [enabled |-> TRUE, global_rpm_limit |-> 0, reply_rpm_limit |-> 0 - 1,
       behavior_rpm_limit |-> 0, extraction_rpm_limit |-> 0, sample_n |-> 0],
      [enabled |-> FALSE, global_rpm_limit |-> 1, reply_rpm_limit |-> 1,
       behavior_rpm_limit |-> 1, extraction_rpm_limit |-> 1, sample_n |-> 2] }

IdleThread ==
    [pc |-> "idle", stage |-> "", idx |-> 0, now |-> 0, tmp |-> 0,
     ret |-> FALSE, path |-> "", sawFull |-> FALSE,
     snap |-> <<>>, counted |-> <<>>]

\* __init__
GateInit ==
    \E c \in GateConfigs :
        /\ enabled = c.enabled
        /\ global_limit = Max(1, c.global_rpm_limit)
        /\ stage_limits = [s \in Stages |->
                             CASE s = "reply" -> Max(1, c.reply_rpm_limit)
                               [] s = "behavior" -> Max(1, c.behavior_rpm_limit)
                               [] OTHER -> Max(1, c.extraction_rpm_limit)]
        /\ behavior_sample_n = Max(1, c.sample_n)
        /\ calls = [q \in QueueNames |-> <<>>]
        /\ dropped = [s \in Stages |-> 0]
        /\ lock = NoThread
        /\ th = [t \in Threads |-> IdleThread]
        /\ recent = <<>>
        /\ admitted = [s \in Stages |-> 0]
        /\ denied = [s \in Stages |-> 0]
        /\ pruned = [q \in QueueNames |-> 0]

\* _prune: pop from the left while the head is older than the cutoff
RECURSIVE Prune(_, _)
Prune(queue, now) ==
    IF queue # <<>> /\ Head(queue) < now - Window
    THEN Prune(Tail(queue), now)
    ELSE queue

BehaviorSamplingAllows_NoOffset(scammer_message_index) ==
    IF behavior_sample_n <= 1 THEN TRUE
    ELSE IF scammer_message_index <= 1 THEN TRUE
    ELSE scammer_message_index % behavior_sample_n = 0

\* _behavior_sampling_allows
BehaviorSamplingAllows(scammer_message_index) ==
    IF behavior_sample_n <= 1 THEN TRUE
    ELSE IF scammer_message_index <= 1 THEN TRUE
    ELSE (scammer_message_index - 1) % behavior_sample_n = 0

PreFilter_SamplingSkipped(stage, scammer_message_index) ==
    IF stage \notin DOMAIN stage_limits THEN "unknown_stage"
    ELSE IF ~enabled THEN "disabled"
    ELSE "window"

\* allow, lines 73-79: what the call does before it looks at the window
PreFilter(stage, scammer_message_index) ==
    IF stage \notin DOMAIN stage_limits THEN "unknown_stage"
    ELSE IF ~enabled THEN "disabled"
    ELSE IF stage = "behavior"
            /\ ~BehaviorSamplingAllows(Max(0, scammer_message_index))
         THEN "sampled_out"
    ELSE "window"

GlobalFull_OffByOne(queue) == Len(queue) > global_limit

\* allow, line 88
GlobalFull(queue) == Len(queue) >= global_limit

StageFull_OffByOne(queue, stage) == Len(queue) > stage_limits[stage]

\* allow, line 91
StageFull(queue, stage) == Len(queue) >= stage_limits[stage]

LockFree_NoLock == TRUE

\* with self._lock: the lock can be taken when nobody holds it
LockFree == lock = NoThread

\* the admitted timestamps that lie within the trailing window of time `at`
InWindow(at) == {i \in 1..Len(recent) : recent[i].ts >= at - Window}

\* those of them that were calls of the stage
StageInWindow(at, stage) == {i \in InWindow(at) : recent[i].stage = stage}

\* the calls that have reached the window so far, finished or in progress
WindowCalls ==
    admitted["reply"] + admitted["behavior"] + admitted["extraction"]
    + denied["reply"] + denied["behavior"] + denied["extraction"]
    + Cardinality({t \in Threads :
                     th[t].pc \in {"wait", "drop", "append", "append_stage"}})

GateTick ==
    /\ UNCHANGED <<sessionVars, an>>
    /\ clock + GateTickStep <= MaxClock
    /\ clock' = clock + GateTickStep
    /\ recent' = SelectSeq(recent, LAMBDA r : r.ts >= clock' - Window)
    /\ UNCHANGED <<enabled, global_limit, stage_limits, behavior_sample_n,
                   calls, dropped, lock, th, admitted, denied, pruned>>

\* allow, lines 72-81: the early returns, then now = time.time()
AllowEnter(t, stage, index) ==
    /\ UNCHANGED <<sessionVars, an>>
    /\ th[t].pc = "idle"
    /\ PreFilter(stage, index) = "window" => WindowCalls < MaxCalls
    /\ LET pre == PreFilter(stage, index)
           me  == [th[t] EXCEPT !.stage = stage, !.path = pre,
                                !.idx = IF stage = "behavior" THEN index ELSE 0]
       IN  th' = [th EXCEPT ![t] =
                    CASE pre = "unknown_stage" ->
                            [me EXCEPT !.pc = "done", !.ret = FALSE]
                      [] pre = "disabled" ->
                            [me EXCEPT !.pc = "done", !.ret = TRUE]
                      [] pre = "sampled_out" ->
                            [me EXCEPT !.pc = "done", !.ret = FALSE]
                      [] OTHER ->
                            [me EXCEPT !.pc = "wait", !.now = clock]]
    /\ UNCHANGED <<clock, enabled, global_limit, stage_limits, behavior_sample_n,
                   calls, dropped, lock, recent, admitted, denied, pruned>>

\* allow, lines 82-93: take the lock, prune both queues, compare with the limits;
\* a denial reads the drop counter here and stores it in AllowDrop
AllowLocked(t) ==
    /\ UNCHANGED <<sessionVars, an>>
    /\ th[t].pc = "wait"
    /\ LockFree
    /\ lock' = t
    /\ LET stage == th[t].stage
           now == th[t].now
           gq == Prune(calls["global"], now)
           sq == Prune(calls[stage], now)
           full == Cardinality(InWindow(clock)) >= global_limit
       IN  /\ calls' = [calls EXCEPT !["global"] = gq, ![stage] = sq]
           /\ pruned' = [pruned EXCEPT
                           !["global"] = @ + Len(calls["global"]) - Len(gq),
                           ![stage] = @ + Len(calls[stage]) - Len(sq)]
           /\ th' = [th EXCEPT ![t] =
                        IF GlobalFull(gq) \/ StageFull(sq, stage)
                        THEN [@ EXCEPT !.pc = "drop", !.tmp = dropped[stage],
                                       !.idx = 0, !.sawFull = full]
                        ELSE [@ EXCEPT !.pc = "append", !.idx = 0,
                                       !.sawFull = full]]
    /\ UNCHANGED <<clock, enabled, global_limit, stage_limits, behavior_sample_n,
                   dropped, recent, admitted, denied>>

\* allow, lines 89-90 / 92-93: self._dropped[stage] += 1; return False
AllowDrop(t) ==
    /\ UNCHANGED <<sessionVars, an>>
    /\ th[t].pc = "drop"
    /\ dropped' = [dropped EXCEPT ![th[t].stage] = th[t].tmp + 1]
    /\ denied' = [denied EXCEPT ![th[t].stage] = @ + 1]
    /\ lock' = NoThread
    /\ th' = [th EXCEPT ![t] = [@ EXCEPT !.pc = "done", !.ret = FALSE]]
    /\ UNCHANGED <<clock, enabled, global_limit, stage_limits, behavior_sample_n,
                   calls, recent, admitted, pruned>>

\* allow, line 95: global_queue.append(now)
AllowAppendGlobal(t) ==
    /\ UNCHANGED <<sessionVars, an>>
    /\ th[t].pc = "append"
    /\ calls' = [calls EXCEPT !["global"] = Append(@, th[t].now)]
    /\ th' = [th EXCEPT ![t] = [@ EXCEPT !.pc = "append_stage"]]
    /\ UNCHANGED <<clock, enabled, global_limit, stage_limits, behavior_sample_n,
                   dropped, lock, recent, admitted, denied, pruned>>

\* allow, lines 96-97: stage_queue.append(now); return True
AllowAppendStage(t) ==
    /\ UNCHANGED <<sessionVars, an>>
    /\ th[t].pc = "append_stage"
    /\ calls' = [calls EXCEPT ![th[t].stage] = Append(@, th[t].now)]
    /\ admitted' = [admitted EXCEPT ![th[t].stage] = @ + 1]
    /\ recent' = IF th[t].now >= clock - Window
                 THEN Append(recent, [ts |-> th[t].now, stage |-> th[t].stage])
                 ELSE recent
    /\ lock' = NoThread
    /\ th' = [th EXCEPT ![t] = [@ EXCEPT !.pc = "done", !.ret = TRUE]]
    /\ UNCHANGED <<clock, enabled, global_limit, stage_limits, behavior_sample_n,
                   dropped, denied, pruned>>

\* snapshot, line 100: now = time.time()
SnapshotEnter(t) ==
    /\ UNCHANGED <<sessionVars, an>>
    /\ th[t].pc = "idle"
    /\ th' = [th EXCEPT ![t] = [@ EXCEPT !.pc = "snap_wait", !.now = clock]]
    /\ UNCHANGED <<clock, enabled, global_limit, stage_limits, behavior_sample_n,
                   calls, dropped, lock, recent, admitted, denied, pruned>>

\* snapshot, lines 101-119: under the lock, prune every queue and build the view
SnapshotLocked(t) ==
    /\ UNCHANGED <<sessionVars, an>>
    /\ th[t].pc = "snap_wait"
    /\ LockFree
    /\ LET now == th[t].now
           after == [q \in QueueNames |-> Prune(calls[q], now)]
       IN  /\ calls' = after
           /\ pruned' = [q \in QueueNames |->
                            pruned[q] + Len(calls[q]) - Len(after[q])]
           /\ th' = [th EXCEPT ![t] =
                        [@ EXCEPT !.pc = "snap_done",
                                  !.counted = after,
                                  !.snap =
                                     [enabled |-> enabled,
                                      limits |-> [q \in QueueNames |->
                                                    IF q = "global"
                                                    THEN global_limit
                                                    ELSE stage_limits[q]],
                                      in_window_calls |->
                                         [q \in QueueNames |-> Len(after[q])],
                                      dropped_calls |-> dropped]]]
    /\ UNCHANGED <<clock, enabled, global_limit, stage_limits, behavior_sample_n,
                   dropped, lock, recent, admitted, denied>>

\* the caller takes the result; the thread is free for its next call
Return(t) ==
    /\ UNCHANGED <<sessionVars, an>>
    /\ th[t].pc \in {"done", "snap_done"}
    /\ th' = [th EXCEPT ![t] = IdleThread]
    /\ UNCHANGED <<clock, enabled, global_limit, stage_limits, behavior_sample_n,
                   calls, dropped, lock, recent, admitted, denied, pruned>>

GateNext ==
    \/ GateTick
    \/ \E t \in Threads, stage \in StageInputs, index \in IndexInputs :
          AllowEnter(t, stage, index)
    \/ \E t \in Threads : AllowLocked(t)
    \/ \E t \in Threads : AllowDrop(t)
    \/ \E t \in Threads : AllowAppendGlobal(t)
    \/ \E t \in Threads : AllowAppendStage(t)
    \/ \E t \in Threads : SnapshotEnter(t)
    \/ \E t \in Threads : SnapshotLocked(t)
    \/ \E t \in Threads : Return(t)

----------------------------------------------------------------------------
(* Engagement finalizer *)

MaxTurns == 12
MaxMessages == 12
MaxActionable == 3
MaxTrueEvals == 2

FINALIZE_MIN_SECONDS == 60

None == <<>>
Some(x) == <<x>>

\* a float is [k, n, d]: the finite value n/d thousandths, or nan, inf, ninf
Fin(n, d) == [k |-> "fin", n |-> n, d |-> d]
NaN == [k |-> "nan", n |-> 0, d |-> 1]
PosInf == [k |-> "inf", n |-> 0, d |-> 1]
NegInf == [k |-> "ninf", n |-> 0, d |-> 1]

\* a new engagement
NewSession ==
    [finalized |-> FALSE, scam_detected |-> FALSE,
     first_scam_timestamp |-> None,
     rolling_scam_score |-> Fin(0, 1),
     scammer_messages |-> 0, agent_turns |-> 0,
     intel |-> [upi_ids |-> {}, crypto_wallets |-> {}, actionable |-> 0]]

\* no call of infer_strategy_state in progress
NoCall ==
    [pc |-> "idle", rolling_score |-> None, scam_detected |-> None,
     actionable_count |-> None, agent_turns |-> None, result |-> "",
     rolling_score2 |-> None, result2 |-> ""]

SessionInit ==
    /\ session = NewSession
    /\ verdict = None
    /\ returned_true = FALSE
    /\ true_evals = 0
    /\ strat = NoCall

IntTrunc_Rounds(x) == (2 * x + UnitsPerSecond) \div (2 * UnitsPerSecond)

\* int(): a span of ticks as whole seconds, the fraction cut off toward zero
IntTrunc(x) ==
    IF x >= 0 THEN x \div UnitsPerSecond ELSE 0 - ((0 - x) \div UnitsPerSecond)

\* should_finalize, lines 9-15: the values the conditions read
HasPaymentId(state) ==
    state.intel.upi_ids # {} \/ state.intel.crypto_wallets # {}
ElapsedSeconds(state, now) ==
    IF state.first_scam_timestamp # None
    THEN IntTrunc(now - state.first_scam_timestamp[1])
    ELSE 0
TotalMessages(state) == state.scammer_messages + state.agent_turns

HardCap_After12(state) == state.agent_turns > 12

\* should_finalize, lines 18-19: hard stop
HardCap(state) == state.agent_turns >= 12

FastExit_ExactlyFiveTurns(state, now) ==
    /\ HasPaymentId(state)
    /\ state.intel.actionable >= 2
    /\ state.agent_turns = 5
    /\ TotalMessages(state) >= 10
    /\ ElapsedSeconds(state, now) >= 60

\* should_finalize, lines 22-29: a payment identifier was captured
FastExit(state, now) ==
    /\ HasPaymentId(state)
    /\ state.intel.actionable >= 2
    /\ state.agent_turns >= 5
    /\ TotalMessages(state) >= 10
    /\ ElapsedSeconds(state, now) >= 60

\* should_finalize, lines 32-33: strong extraction signal
DeepExtraction(state, now) ==
    /\ state.intel.actionable >= 3
    /\ state.agent_turns >= 10
    /\ ElapsedSeconds(state, now) >= 60

\* should_finalize, lines 36-37: very chatty scammers
ChattyFallback(state, now) ==
    /\ state.scammer_messages >= 12
    /\ state.agent_turns >= 10
    /\ ElapsedSeconds(state, now) >= 60

\* should_finalize
ShouldFinalize(state, now) ==
    IF state.finalized \/ ~state.scam_detected THEN FALSE
    ELSE IF HardCap(state) THEN TRUE
    ELSE IF FastExit(state, now) THEN TRUE
    ELSE IF DeepExtraction(state, now) THEN TRUE
    ELSE IF ChattyFallback(state, now) THEN TRUE
    ELSE FALSE

\* the clock moves on by just under, or exactly, the finalizer's minimum time
SessionTick ==
    /\ \E d \in {FINALIZE_MIN_SECONDS * UnitsPerSecond - 1,
                 FINALIZE_MIN_SECONDS * UnitsPerSecond} :
          /\ clock + d <= MaxClock
          /\ clock' = clock + d
    /\ verdict' = None
    /\ UNCHANGED <<session, returned_true, true_evals, strat, gateVars, an>>

\* the scammer sends a message
ScammerMessage ==
    /\ ~session.finalized
    /\ session.scammer_messages < MaxMessages
    /\ session' = [session EXCEPT !.scammer_messages = @ + 1]
    /\ verdict' = None
    /\ UNCHANGED <<clock, returned_true, true_evals, strat, gateVars, an>>

\* the caller marks the session as a scam; it may or may not have a time to
\* record for the first scam message
DetectScam(record) ==
    /\ ~session.finalized
    /\ ~session.scam_detected
    /\ session' = [session EXCEPT
                     !.scam_detected = TRUE,
                     !.first_scam_timestamp =
                         IF record THEN Some(clock) ELSE None]
    /\ verdict' = None
    /\ UNCHANGED <<clock, returned_true, true_evals, strat, gateVars, an>>

\* extraction adds to the intelligence of the session
CaptureIntel(kind) ==
    /\ ~session.finalized
    /\ \/ /\ kind = "upi" /\ session.intel.upi_ids = {}
          /\ session' = [session EXCEPT !.intel.upi_ids = {"scam@upi"}]
       \/ /\ kind = "wallet" /\ session.intel.crypto_wallets = {}
          /\ session' = [session EXCEPT !.intel.crypto_wallets = {"0xabc"}]
       \/ /\ kind = "category" /\ session.intel.actionable < MaxActionable
          /\ session' = [session EXCEPT !.intel.actionable = @ + 1]
    /\ verdict' = None
    /\ UNCHANGED <<clock, returned_true, true_evals, strat, gateVars, an>>

\* the agent takes a turn, and the caller evaluates should_finalize after it
AgentTurn ==
    /\ ~session.finalized
    /\ session.agent_turns < MaxTurns
    /\ session' = [session EXCEPT !.agent_turns = @ + 1]
    /\ verdict' = Some(ShouldFinalize(session', clock))
    /\ returned_true' = (returned_true \/ ShouldFinalize(session', clock))
    /\ true_evals' = IF ShouldFinalize(session', clock)
                     THEN Min(MaxTrueEvals, true_evals + 1) ELSE true_evals
    /\ UNCHANGED <<clock, strat, gateVars, an>>

\* should_finalize evaluated at any other moment
Evaluate ==
    /\ verdict = None
    /\ verdict' = Some(ShouldFinalize(session, clock))
    /\ returned_true' = (returned_true \/ ShouldFinalize(session, clock))
    /\ true_evals' = IF ShouldFinalize(session, clock)
                     THEN Min(MaxTrueEvals, true_evals + 1) ELSE true_evals
    /\ UNCHANGED <<clock, session, strat, gateVars, an>>

\* the caller ends the engagement once should_finalize has said so
Finalize ==
    /\ verdict = Some(TRUE)
    /\ session' = [session EXCEPT !.finalized = TRUE]
    /\ verdict' = None
    /\ UNCHANGED <<clock, returned_true, true_evals, strat, gateVars, an>>

SessionNext ==
    \/ SessionTick
    \/ ScammerMessage
    \/ \E record \in BOOLEAN : DetectScam(record)
    \/ \E kind \in {"upi", "wallet", "category"} : CaptureIntel(kind)
    \/ AgentTurn
    \/ Evaluate
    \/ Finalize

\* a gate that is constructed and left alone
GateIdle ==
    /\ GateInit
    /\ ~enabled

----------------------------------------------------------------------------
(* Behavior analyzer.  A text is the set of the words in it; the empty set is
   the empty string.  A float is [k, n, d]: the finite value n/d thousandths,
   or nan, inf, ninf. *)

Words == {"urgent", "bank", "prize", "otp", "http", "call", "hello"}
TextInputs == SUBSET Words

\* the compiled patterns, lines 8-21: the words of the vocabulary each matches
URGENCY_PATTERN == {"urgent"}
AUTHORITY_PATTERN == {"bank"}
REWARD_PATTERN == {"prize"}
VERIFY_PATTERN == {"otp"}
LINK_PRESSURE_PATTERN == {"http"}
ALT_CHANNEL_PATTERN == {"call"}

\* pattern.search(text)
Search(pattern, text) == pattern \cap text # {}

\* a < b on floats; every comparison with nan is false
Lt(a, b) ==
    CASE a.k = "nan" \/ b.k = "nan" -> FALSE
      [] a.k = "fin" /\ b.k = "fin" -> a.n * b.d < b.n * a.d
      [] a.k = "ninf" -> b.k # "ninf"
      [] a.k = "inf" -> FALSE
      [] OTHER -> b.k = "inf"

\* min(a, b) and max(a, b) of Python: the first argument unless the second
\* is strictly smaller (larger)
PyMin(a, b) == IF Lt(b, a) THEN b ELSE a
PyMax(a, b) == IF Lt(a, b) THEN b ELSE a

\* a + b and a * (num / den) on floats
Add(a, b) ==
    IF a.k = "fin" /\ b.k = "fin" THEN Fin(a.n * b.d + b.n * a.d, a.d * b.d)
    ELSE IF a.k = "fin" THEN b
    ELSE IF b.k = "fin" \/ a.k = b.k THEN a
    ELSE NaN
Scale(a, num, den) ==
    IF a.k = "fin" THEN Fin(a.n * num, a.d * den) ELSE a

\* the integer nearest to num / den (den > 0), a tie going to the even one
RoundHalfEven(num, den) ==
    LET m == IF num >= 0 THEN num ELSE 0 - num
        q == m \div den
        r == m % den
        up == IF 2 * r < den THEN q
              ELSE IF 2 * r > den THEN q + 1
              ELSE IF q % 2 = 0 THEN q ELSE q + 1
    IN  IF num >= 0 THEN up ELSE 0 - up

\* round(x, 2): thousandths rounded to a whole number of hundredths
Round2(x) ==
    IF x.k = "fin" THEN Fin(10 * RoundHalfEven(x.n, 10 * x.d), 1) ELSE x

Zero == Fin(0, 1)
One == Fin(1000, 1)
Ten == Fin(10000, 1)

\* sorted(set(...)): the tags that occur, in string order
TagOrder ==
    <<"alternate_channel_push", "authority_impersonation",
      "external_link_pressure", "made_up_tag", "reward_bait", "urgency",
      "verification_or_secret_request">>
Sorted(S) == SelectSeq(TagOrder, LAMBDA x : x \in S)
Elements(seq) == {seq[i] : i \in DOMAIN seq}

\* BehavioralAnalysisResult
Result(score, confidence, indicators, category_hint) ==
    [score |-> score, confidence |-> confidence,
     indicators |-> indicators, category_hint |-> category_hint]

\* _rule_based_analysis, lines 37-57: the indicators in the order appended
RuleIndicators(text) ==
    (IF Search(URGENCY_PATTERN, text) THEN <<"urgency">> ELSE <<>>)
    \o (IF Search(AUTHORITY_PATTERN, text)
        THEN <<"authority_impersonation">> ELSE <<>>)
    \o (IF Search(REWARD_PATTERN, text) THEN <<"reward_bait">> ELSE <<>>)
    \o (IF Search(VERIFY_PATTERN, text)
        THEN <<"verification_or_secret_request">> ELSE <<>>)
    \o (IF Search(LINK_PRESSURE_PATTERN, text)
        THEN <<"external_link_pressure">> ELSE <<>>)
    \o (IF Search(ALT_CHANNEL_PATTERN, text)
        THEN <<"alternate_channel_push">> ELSE <<>>)

\* _rule_based_analysis, lines 38-57: the score, in thousandths
RuleScore(text) ==
    (IF Search(URGENCY_PATTERN, text) THEN 2000 ELSE 0)
    + (IF Search(AUTHORITY_PATTERN, text) THEN 2000 ELSE 0)
    + (IF Search(REWARD_PATTERN, text) THEN 1500 ELSE 0)
    + (IF Search(VERIFY_PATTERN, text) THEN 2500 ELSE 0)
    + (IF Search(LINK_PRESSURE_PATTERN, text) THEN 2000 ELSE 0)
    + (IF Search(ALT_CHANNEL_PATTERN, text) THEN 1000 ELSE 0)

\* _rule_based_analysis, lines 59-65
RuleCategory(indicators) ==
    IF "reward_bait" \in Elements(indicators) THEN Some("LOTTERY_SCAM")
    ELSE IF "external_link_pressure" \in Elements(indicators)
         THEN Some("PHISHING")
    ELSE IF /\ "verification_or_secret_request" \in Elements(indicators)
            /\ "authority_impersonation" \in Elements(indicators)
         THEN Some("BANK_FRAUD")
    ELSE None

RuleConfidence_NoMin(score) == Scale(Fin(score, 1), 1, 8)

\* _rule_based_analysis, line 67: min(1.0, score / 8.0)
RuleConfidence(score) == PyMin(One, Scale(Fin(score, 1), 1, 8))

\* _rule_based_analysis
RuleBasedAnalysis(text) ==
    IF text = {} THEN Result(0, 0, <<>>, None)
    ELSE
    LET indicators == RuleIndicators(text)
        score == RuleScore(text)
    IN  Result(Round2(PyMin(Ten, Fin(score, 1))).n,
               Round2(RuleConfidence(score)).n,
               Sorted(Elements(indicators)),
               RuleCategory(indicators))

\* ---- what a provider can answer

\* a JSON value: a number (thousandths), a float literal out of range of
\* the reals, an integer too large for a float, a string, null, a list of
\* strings, or a key that is absent
JNum(n) == [t |-> "num", n |-> n, s |-> "", items |-> <<>>]
JNaN == [t |-> "nan", n |-> 0, s |-> "", items |-> <<>>]
JBigInt == [t |-> "bigint", n |-> 0, s |-> "", items |-> <<>>]
JStr(str) == [t |-> "str", n |-> 0, s |-> str, items |-> <<>>]
JNull == [t |-> "null", n |-> 0, s |-> "", items |-> <<>>]
JList(items) == [t |-> "list", n |-> 0, s |-> "", items |-> items]
JAbsent == [t |-> "absent", n |-> 0, s |-> "", items |-> <<>>]

RiskScoreInputs ==
    {JAbsent, JNum(0 - 2500), JNum(7354), JNum(15000), JNaN,
     JStr("high"), JNull, JBigInt}
ConfidenceInputs == {JAbsent, JNum(554), JNum(1700), JStr("high")}
IndicatorInputs ==
    {JAbsent, JStr("urgency"),
     JList(<<" urgency ", "urgency", "   ">>),
     JList(<<"made_up_tag", "reward_bait">>)}
CategoryInputs == {JAbsent, JStr(" UPI_FRAUD "), JStr("   ")}

PayloadInputs ==
    [riskScore : RiskScoreInputs, confidence : ConfidenceInputs,
     indicators : IndicatorInputs, categoryHint : CategoryInputs]

EmptyPayload ==
    [riskScore |-> JAbsent, confidence |-> JAbsent,
     indicators |-> JAbsent, categoryHint |-> JAbsent]

\* what chat() returns: nothing, an empty string, text that holds no JSON,
\* a JSON array, or a JSON object
NoResponse == [kind |-> "none", payload |-> EmptyPayload]
ResponseInputs ==
    {NoResponse,
     [kind |-> "empty", payload |-> EmptyPayload],
     [kind |-> "prose", payload |-> EmptyPayload],
     [kind |-> "json_array", payload |-> EmptyPayload]}
    \cup {[kind |-> "json_object", payload |-> p] : p \in PayloadInputs}

\* a client: None, or an object with an api_key that may be empty
ClientInputs == {None, Some([api_key |-> ""]), Some([api_key |-> "sk-live"])}

\* `client and client.api_key`
HasKey(client) == client # None /\ client[1].api_key # ""

\* `not raw`
Falsy(raw) == raw.kind \in {"none", "empty"}

\* extract_json_object followed by isinstance(payload, dict), lines 113-115
IsDict(raw) == raw.kind = "json_object"

\* payload.get(key, 0.0)
GetOr(value, default) == IF value.t = "absent" THEN default ELSE value

\* float(): the value, or the exception it raises
FloatOf(value) ==
    CASE value.t = "num" -> [ok |-> TRUE, exc |-> "", x |-> Fin(value.n, 1)]
      [] value.t = "nan" -> [ok |-> TRUE, exc |-> "", x |-> NaN]
      [] value.t = "bigint" -> [ok |-> FALSE, exc |-> "OverflowError", x |-> Zero]
      [] value.t = "str" ->
            IF value.s = "nan" THEN [ok |-> TRUE, exc |-> "", x |-> NaN]
            ELSE [ok |-> FALSE, exc |-> "ValueError", x |-> Zero]
      [] OTHER -> [ok |-> FALSE, exc |-> "TypeError", x |-> Zero]

\* except (TypeError, ValueError), line 120
Caught(exc) == exc \in {"TypeError", "ValueError"}

\* str.strip() on the strings of the inputs
Strip(str) ==
    CASE str = " urgency " -> "urgency"
      [] str = "   " -> ""
      [] str = " UPI_FRAUD " -> "UPI_FRAUD"
      [] OTHER -> str

\* _llm_analysis, lines 123-127
LlmIndicators(indicators_raw) ==
    IF indicators_raw.t = "list"
    THEN LET stripped == [i \in DOMAIN indicators_raw.items |->
                             Strip(indicators_raw.items[i])]
         IN  SelectSeq(stripped, LAMBDA x : x # "")
    ELSE <<>>

\* _llm_analysis, lines 128-129
LlmCategory(category_hint) ==
    IF category_hint.t = "str" /\ category_hint.s # ""
    THEN Some(Strip(category_hint.s))
    ELSE None

ClampScore_NoClamp(score) == score

\* _llm_analysis, line 132: max(0.0, min(10.0, score))
ClampScore(score) == PyMax(Zero, PyMin(Ten, score))

\* _llm_analysis, line 133: max(0.0, min(1.0, confidence))
ClampConfidence(confidence) == PyMax(Zero, PyMin(One, confidence))

\* _llm_analysis, lines 131-136, once both numbers are coerced
LlmResult(payload, score, confidence) ==
    Result(Round2(ClampScore(score)).n,
           Round2(ClampConfidence(confidence)).n,
           Sorted(Elements(LlmIndicators(payload.indicators))),
           LlmCategory(payload.categoryHint))

\* `a or b` on category hints
OrElse(a, b) == IF a # None /\ a[1] # "" THEN a ELSE b

\* analyze, lines 149-159
Fuse(rule_result, llm_result) ==
    LET combined_score ==
            Add(Scale(Fin(rule_result.score, 1), 6, 10),
                Scale(Fin(llm_result.score, 1), 4, 10))
        combined_confidence ==
            PyMax(Fin(rule_result.confidence, 1), Fin(llm_result.confidence, 1))
        combined_indicators ==
            Sorted(Elements(rule_result.indicators)
                   \cup Elements(llm_result.indicators))
    IN  Result(Round2(PyMin(Ten, combined_score)).n,
               Round2(PyMin(One, combined_confidence)).n,
               combined_indicators,
               OrElse(llm_result.category_hint, rule_result.category_hint))

\* ---- one call of analyze(text, openai, gemini)

AnalyzerIdle ==
    an = [pc |-> "idle", text |-> {}, openai |-> None, gemini |-> None,
          raw |-> NoResponse, rule_result |-> None, llm_result |-> None,
          result |-> None, exc |-> "", openai_calls |-> 0, gemini_calls |-> 0]

AnalyzerInit ==
    \E text \in TextInputs, openai \in ClientInputs, gemini \in ClientInputs :
        an = [pc |-> "start", text |-> text, openai |-> openai,
              gemini |-> gemini, raw |-> NoResponse, rule_result |-> None,
              llm_result |-> None, result |-> None, exc |-> "",
              openai_calls |-> 0, gemini_calls |-> 0]

\* analyze, line 144
AnalyzeRule ==
    /\ an.pc = "start"
    /\ an' = [an EXCEPT !.pc = "llm",
                        !.rule_result = Some(RuleBasedAnalysis(an.text))]
    /\ UNCHANGED <<clock, gateVars, sessionVars>>

\* _llm_analysis, lines 81-101: no text or no credentials is no judgment
LlmEnter ==
    /\ an.pc = "llm"
    /\ an' = [an EXCEPT !.pc =
                 IF an.text = {} THEN "fuse"
                 ELSE IF ~(HasKey(an.openai) \/ HasKey(an.gemini)) THEN "fuse"
                 ELSE IF HasKey(an.openai) THEN "openai"
                 ELSE "gemini"]
    /\ UNCHANGED <<clock, gateVars, sessionVars>>

\* _llm_analysis, lines 101-108: raw = openai.chat(...)
OpenAIChat(response) ==
    /\ an.pc = "openai"
    /\ an' = [an EXCEPT !.raw = response,
                        !.openai_calls = @ + 1,
                        !.pc = IF Falsy(response) /\ HasKey(an.gemini)
                               THEN "gemini" ELSE "parse"]
    /\ UNCHANGED <<clock, gateVars, sessionVars>>

\* _llm_analysis, lines 108-109: raw = gemini.chat(...)
GeminiChat(response) ==
    /\ an.pc = "gemini"
    /\ an' = [an EXCEPT !.raw = response,
                        !.gemini_calls = @ + 1,
                        !.pc = "parse"]
    /\ UNCHANGED <<clock, gateVars, sessionVars>>

\* _llm_analysis, lines 110-136: parse the answer into a judgment, or None;
\* an exception the except clause does not name leaves analyze
LlmParse ==
    /\ an.pc = "parse"
    /\ LET payload == an.raw.payload
           score == FloatOf(GetOr(payload.riskScore, JNum(0)))
           confidence == FloatOf(GetOr(payload.confidence, JNum(0)))
       IN  an' =
             IF Falsy(an.raw) \/ ~IsDict(an.raw)
             THEN [an EXCEPT !.pc = "fuse"]
             ELSE IF ~score.ok
             THEN IF Caught(score.exc) THEN [an EXCEPT !.pc = "fuse"]
                  ELSE [an EXCEPT !.pc = "raised", !.exc = score.exc]
             ELSE IF ~confidence.ok
             THEN IF Caught(confidence.exc) THEN [an EXCEPT !.pc = "fuse"]
                  ELSE [an EXCEPT !.pc = "raised", !.exc = confidence.exc]
             ELSE [an EXCEPT !.pc = "fuse",
                             !.llm_result =
                                Some(LlmResult(payload, score.x, confidence.x))]
    /\ UNCHANGED <<clock, gateVars, sessionVars>>

\* analyze, lines 146-159
AnalyzeFuse ==
    /\ an.pc = "fuse"
    /\ an' = [an EXCEPT !.pc = "end",
                        !.result =
                           IF an.llm_result = None THEN an.rule_result
                           ELSE Some(Fuse(an.rule_result[1], an.llm_result[1]))]
    /\ UNCHANGED <<clock, gateVars, sessionVars>>

AnalyzerNext ==
    \/ AnalyzeRule
    \/ LlmEnter
    \/ \E response \in ResponseInputs : OpenAIChat(response)
    \/ \E response \in ResponseInputs : GeminiChat(response)
    \/ LlmParse
    \/ AnalyzeFuse

----------------------------------------------------------------------------
(* Strategy classifier *)

STRATEGY_NEUTRAL == "Neutral"
STRATEGY_SUSPICIOUS == "Suspicious"
STRATEGY_EXTRACTION_MODE == "Extraction Mode"
STRATEGY_HIGH_CONFIDENCE == "High Confidence Scam"
STRATEGY_HARVEST_MODE == "Intelligence Harvest Mode"

\* the scores a caller passes, and the ones a session holds
ScoreInputs ==
    {NegInf, Fin(0 - 1000, 1), Fin(0, 1), Fin(2999, 1), Fin(3000, 1),
     Fin(5999, 1), Fin(6000, 1), Fin(9999, 1), Fin(10000, 1), Fin(25000, 1),
     PosInf, NaN}
SessionScoreInputs == {Fin(0, 1), Fin(4500, 1), Fin(12000, 1), NaN}

\* the sessions infer_strategy_state is called on
StrategySessions ==
    {[NewSession EXCEPT !.rolling_scam_score = score,
                        !.scam_detected = detected,
                        !.intel.actionable = actionable,
                        !.agent_turns = turns] :
        score \in SessionScoreInputs, detected \in BOOLEAN,
        actionable \in {0, 2, 3}, turns \in {0, 4, 5}}

\* the optional arguments: None, or a value that may be 0 or False
StrategyCalls ==
    [pc : {"start"},
     rolling_score : {None} \cup {Some(x) : x \in ScoreInputs},
     scam_detected : {None, Some(FALSE), Some(TRUE)},
     actionable_count : {None, Some(0), Some(3)},
     agent_turns : {None, Some(0), Some(5)},
     result : {""}, rolling_score2 : {None}, result2 : {""}]

StrategyInit ==
    /\ session \in StrategySessions
    /\ verdict = None
    /\ returned_true = FALSE
    /\ true_evals = 0
    /\ strat \in StrategyCalls

Pick_SessionWins(arg, of_state) == of_state

\* lines 18-21: `of_state if arg is None else arg`
Pick(arg, of_state) == IF arg = None THEN of_state ELSE arg[1]

\* line 23 and line 25
NeutralRule(score, detected) == Lt(score, Fin(3000, 1)) /\ ~detected
SuspiciousRule(score, detected) == Lt(score, Fin(6000, 1)) /\ ~detected

ExtractionRule_Flipped(score) == Lt(Ten, score)

\* line 27
ExtractionRule(score) == Lt(score, Ten)

\* line 29
HarvestRule(actionable, turns) == actionable >= 3 \/ turns >= 5

\* infer_strategy_state
InferStrategyState(state, rolling_score, scam_detected, actionable_count, agent_turns) ==
    LET score == Pick(rolling_score, state.rolling_scam_score)
        actionable == Pick(actionable_count, state.intel.actionable)
        detected == Pick(scam_detected, state.scam_detected)
        turns == Pick(agent_turns, state.agent_turns)
    IN  IF NeutralRule(score, detected) THEN STRATEGY_NEUTRAL
        ELSE IF SuspiciousRule(score, detected) THEN STRATEGY_SUSPICIOUS
        ELSE IF ExtractionRule(score) THEN STRATEGY_EXTRACTION_MODE
        ELSE IF HarvestRule(actionable, turns) THEN STRATEGY_HARVEST_MODE
        ELSE STRATEGY_HIGH_CONFIDENCE

\* the caller asks for the strategy of the session
InferStrategy ==
    /\ strat.pc = "start"
    /\ strat' = [strat EXCEPT
                   !.pc = "called",
                   !.result = InferStrategyState(session, strat.rolling_score,
                                                 strat.scam_detected,
                                                 strat.actionable_count,
                                                 strat.agent_turns)]
    /\ UNCHANGED <<clock, session, verdict, returned_true, true_evals, gateVars, an>>

\* the caller asks again, with another score and everything else as before
InferStrategyAgain(score2) ==
    /\ strat.pc = "called"
    /\ strat' = [strat EXCEPT
                   !.pc = "compared",
                   !.rolling_score2 = Some(score2),
                   !.result2 = InferStrategyState(session, Some(score2),
                                                  strat.scam_detected,
                                                  strat.actionable_count,
                                                  strat.agent_turns)]
    /\ UNCHANGED <<clock, session, verdict, returned_true, true_evals, gateVars, an>>

StrategyNext ==
    \/ InferStrategy
    \/ \E score2 \in ScoreInputs : InferStrategyAgain(score2)

InitStrategy == clock = 0 /\ GateIdle /\ StrategyInit /\ AnalyzerIdle
SpecStrategy == InitStrategy /\ [][StrategyNext]_vars

InitFinalizer == clock = 0 /\ GateIdle /\ SessionInit /\ AnalyzerIdle
SpecFinalizer == InitFinalizer /\ [][SessionNext]_vars

InitAnalyzer == clock = 0 /\ GateIdle /\ SessionInit /\ AnalyzerInit
SpecAnalyzer == InitAnalyzer /\ [][AnalyzerNext]_vars


Init == clock = 0 /\ GateInit /\ SessionInit /\ AnalyzerIdle
Next == GateNext
Spec == Init /\ [][Next]_vars

----------------------------------------------------------------------------
(* Properties of the gate *)

InCritical(t) == th[t].pc \in {"drop", "append", "append_stage"}
Quiescent == \A t \in Threads : ~InCritical(t)
DecidedByWindow(t) ==
    th[t].path = "window" /\ th[t].pc \in {"drop", "append", "append_stage", "done"}

\* the sampling rule as the specification words it
SamplingRule(i, n) == i <= 1 \/ (i - 1) % n = 0

\* C1: once global_limit calls were admitted with timestamps inside the window
\* of the clock (the window has not advanced past the oldest of them), an
\* allow call that reaches the window check, for any stage, is denied.
C1_FullWindowDenies ==
    \A t \in Threads :
        (DecidedByWindow(t) /\ th[t].sawFull)
            => /\ th[t].pc \in {"drop", "done"}
               /\ th[t].pc = "done" => th[t].ret = FALSE

\* C1 witness: a call was denied with the global window full although its own
\* stage queue had room.
C1_Witness ==
    \E t \in Threads :
        /\ th[t].pc = "done" /\ th[t].path = "window"
        /\ th[t].sawFull /\ th[t].ret = FALSE
        /\ Len(calls[th[t].stage]) < stage_limits[th[t].stage]

\* C4: on an enabled gate a behavior call goes on to the window check exactly
\* when its index i satisfies i <= 1 or (i - 1) mod N = 0 (N = 3, indices
\* 1..7: exactly 1, 4, 7), whatever the queues hold.
C4_SamplingRule ==
    \A t \in Threads :
        (enabled /\ th[t].stage = "behavior"
                 /\ (th[t].pc = "wait" \/ th[t].path = "sampled_out"))
            => /\ th[t].pc = "wait"
                      <=> SamplingRule(th[t].idx, behavior_sample_n)
               /\ th[t].path = "sampled_out"
                      <=> ~SamplingRule(th[t].idx, behavior_sample_n)
               /\ (behavior_sample_n = 3 /\ th[t].idx \in 1..7)
                      => (th[t].pc = "wait" <=> th[t].idx \in {1, 4, 7})

\* C4 witness: index 4 passes sampling with N = 3 while the global queue is
\* at its limit, and another thread's index 5 was sampled out.
C4_Witness ==
    \E t, u \in Threads :
        /\ behavior_sample_n = 3
        /\ th[t].pc = "wait" /\ th[t].stage = "behavior" /\ th[t].idx = 4
        /\ GlobalFull(calls["global"])
        /\ th[u].path = "sampled_out" /\ th[u].idx = 5

\* C5: a behavior call on an enabled gate whose index fails the sampling rule
\* returns False at once, and that step changes no queue and no drop counter.
C5_SampledOutFrame ==
    [][\A t \in Threads :
          (enabled /\ th'[t].stage = "behavior" /\ th[t].pc = "idle"
                   /\ th'[t].pc # "idle"
                   /\ ~SamplingRule(th'[t].idx, behavior_sample_n))
             => /\ th'[t].pc = "done" /\ th'[t].ret = FALSE
                /\ calls' = calls /\ dropped' = dropped]_vars

\* C5 witness: a sampled-out call has returned while the queues hold
\* timestamps and a drop was counted.
C5_Witness ==
    \E t \in Threads :
        /\ th[t].pc = "done" /\ th[t].path = "sampled_out" /\ th[t].ret = FALSE
        /\ calls["global"] # <<>>
        /\ \E s \in Stages : dropped[s] > 0

\* C6: whenever no call is inside the critical section, every drop counter
\* equals the number of calls of its stage that the window denied, every stage
\* queue has received exactly one timestamp per admitted call of its stage,
\* and the global queue exactly one per admitted call.
C6_NoCallLostOrDoubled ==
    Quiescent =>
        /\ \A s \in Stages :
              /\ dropped[s] = denied[s]
              /\ Len(calls[s]) + pruned[s] = admitted[s]
        /\ Len(calls["global"]) + pruned["global"]
              = admitted["reply"] + admitted["behavior"] + admitted["extraction"]

\* C6 witness: two overlapping calls of one stage were both denied by the
\* window and both are counted.
C6_Witness ==
    /\ th["t1"].pc = "done" /\ th["t2"].pc = "done"
    /\ th["t1"].path = "window" /\ th["t2"].path = "window"
    /\ ~th["t1"].ret /\ ~th["t2"].ret
    /\ th["t1"].stage = th["t2"].stage
    /\ dropped[th["t1"].stage] = 2

\* C7: every timestamp a snapshot counts lies within the 60 seconds before
\* the snapshot's own clock reading.
C7_SnapshotCountsOnlyWindow ==
    \A t \in Threads :
        th[t].pc = "snap_done" =>
            \A q \in QueueNames :
                /\ th[t].snap.in_window_calls[q] = Len(th[t].counted[q])
                /\ \A i \in 1..Len(th[t].counted[q]) :
                      th[t].counted[q][i] >= th[t].now - Window

\* every limit of the constructed gate is at least 1
LimitsCoerced ==
    /\ global_limit >= 1
    /\ \A s \in Stages : stage_limits[s] >= 1
    /\ behavior_sample_n >= 1

\* C14 as claimed: every limit is at least 1, and an enabled gate admits at
\* least one call per window for each stage: the window denies a call of a
\* stage only when that stage's queue still holds an admitted call.
C14_EachStageAdmitsOne ==
    /\ LimitsCoerced
    /\ \A t \in Threads :
          th[t].pc = "drop" => calls[th[t].stage] # <<>>

\* C14 as amended: every limit is at least 1, and the window denies a call
\* only after some call was admitted and while the global queue still holds
\* an admitted timestamp: a gate with nothing admitted, or with both queues
\* purged empty, admits the call, whatever the configuration was.
C14_CoercedAndEmptyWindowAdmits ==
    /\ LimitsCoerced
    /\ \A t \in Threads :
          th[t].pc = "drop" =>
              /\ calls["global"] # <<>>
              /\ admitted["reply"] + admitted["behavior"]
                    + admitted["extraction"] >= 1

\* C14 witness: a gate built from non-positive limits (all coerced to 1)
\* admitted a call, denied the next one, and admitted one of another stage
\* once the window had passed.
C14_Witness ==
    /\ enabled /\ global_limit = 1 /\ behavior_sample_n = 1
    /\ admitted["reply"] + admitted["behavior"] + admitted["extraction"] = 2
    /\ \E s \in Stages : denied[s] = 1
    /\ \E t \in Threads :
          /\ th[t].pc = "done" /\ th[t].path = "window" /\ th[t].ret
          /\ admitted[th[t].stage] = 1

\* what the allow call of thread t, waiting for the lock with its clock
\* reading taken, returns if it is the next to take the lock
WouldAdmit(t) ==
    LET gq == Prune(calls["global"], th[t].now)
        sq == Prune(calls[th[t].stage], th[t].now)
    IN  ~GlobalFull(gq) /\ ~StageFull(sq, th[t].stage)

\* the step in which thread u's snapshot runs its critical section
SnapshotStep(u) == th[u].pc = "snap_wait" /\ th'[u].pc = "snap_done"

\* C16: a snapshot leaves every drop counter as it was, and an allow call
\* that is about to take the lock returns the same with the snapshot made
\* before it as without it.
C16_SnapshotNoEffect ==
    [][\A u \in Threads :
          SnapshotStep(u) =>
              /\ dropped' = dropped
              /\ \A t \in Threads :
                    th[t].pc = "wait" => (WouldAdmit(t)' <=> WouldAdmit(t))]_vars

\* C16, the part the code keeps: a snapshot changes no drop counter, limit or
\* flag, removes timestamps only from the front of a queue, and appends none.
C16_SnapshotKeepsCounters ==
    [][\A u \in Threads :
          SnapshotStep(u) =>
              /\ dropped' = dropped
              /\ enabled' = enabled /\ global_limit' = global_limit
              /\ stage_limits' = stage_limits
              /\ \A q \in QueueNames :
                    \E k \in 0..Len(calls[q]) :
                        calls'[q] = SubSeq(calls[q], k + 1, Len(calls[q]))]_vars

\* the configured ceiling of a queue
LimitOf(q) == IF q = "global" THEN global_limit ELSE stage_limits[q]

\* C17: on an enabled gate the global queue never holds more than
\* global_limit timestamps and a stage queue never more than its stage's
\* limit, and no snapshot reports a count above its ceiling.
C17_QueuesWithinLimits ==
    enabled =>
        /\ \A q \in QueueNames : Len(calls[q]) <= LimitOf(q)
        /\ \A t \in Threads :
              th[t].pc = "snap_done" =>
                  \A q \in QueueNames :
                      th[t].snap.in_window_calls[q] <= th[t].snap.limits[q]

\* C17 witness: a snapshot reports the global queue at its ceiling of 2 and
\* the reply queue at its ceiling of 1, after calls were denied.
C17_Witness ==
    /\ enabled /\ global_limit = 2
    /\ \E s \in Stages : denied[s] >= 1
    /\ \E t \in Threads :
          /\ th[t].pc = "snap_done"
          /\ th[t].snap.in_window_calls["global"] = 2
          /\ th[t].snap.in_window_calls["reply"] = 1

\* the step in which thread t's allow call takes the lock and decides
AllowDecides(t) == th[t].pc = "wait" /\ th'[t].pc \in {"drop", "append"}

\* fewer than global_limit admitted calls, and fewer than the stage's limit
\* of the stage's admitted calls, have timestamps within the trailing window
RoomInWindow(t) ==
    /\ Cardinality(InWindow(clock)) < global_limit
    /\ Cardinality(StageInWindow(clock, th[t].stage)) < stage_limits[th[t].stage]

\* C18: a call that reaches the window check while fewer than global_limit
\* admitted calls, and fewer than its stage's limit of its stage's admitted
\* calls, lie within the trailing 60 seconds is admitted; the window denies
\* only when one of the two counts is at its ceiling.  Stated for the calls
\* whose clock reading is still the time at which they decide.
C18_RoomMeansAdmitted ==
    [][\A t \in Threads :
          (AllowDecides(t) /\ th[t].now = clock /\ RoomInWindow(t))
              => th'[t].pc = "append"]_vars

\* C20: in every snapshot of an enabled gate the global in-window count is
\* the sum of the three stage counts.
C20_GlobalIsSumOfStages ==
    \A t \in Threads :
        (enabled /\ th[t].pc = "snap_done") =>
            th[t].snap.in_window_calls["global"]
                = th[t].snap.in_window_calls["reply"]
                  + th[t].snap.in_window_calls["behavior"]
                  + th[t].snap.in_window_calls["extraction"]

----------------------------------------------------------------------------
(* Properties of the finalizer *)

\* at least 60 seconds lie between the first scam message and the clock; no
\* time at all when no first-scam timestamp is recorded
Elapsed60 ==
    /\ session.first_scam_timestamp # None
    /\ clock - session.first_scam_timestamp[1] >= 60 * UnitsPerSecond

\* C2 as claimed: by the evaluation at agent_turns = 12 some evaluation of the
\* session has returned True, whatever the other fields are.
C2_TrueByTurn12 ==
    (verdict # None /\ session.agent_turns >= 12) => returned_true

\* C2 as amended: an evaluation at agent_turns >= 12 of a session that is not
\* finalized and in which a scam was detected returns True, whatever the
\* intelligence, the message count and the elapsed time are.
C2_HardCapOnceDetected ==
    (/\ verdict # None
     /\ session.agent_turns >= 12
     /\ session.scam_detected
     /\ ~session.finalized)
        => verdict = Some(TRUE)

\* C2 witness: the evaluation after the twelfth turn returned True with no
\* intelligence, no scammer message counted and no time recorded.
C2_Witness ==
    /\ verdict = Some(TRUE)
    /\ session.agent_turns = 12
    /\ session.scammer_messages = 0
    /\ session.intel = NewSession.intel
    /\ session.first_scam_timestamp = None

\* C3: should_finalize returns True exactly when the session is not finalized,
\* a scam was detected and one of the four stopping conditions holds.
C3_FinalizeIff ==
    verdict # None =>
        (verdict[1] <=>
            /\ ~session.finalized
            /\ session.scam_detected
            /\ \/ session.agent_turns >= 12
               \/ /\ session.intel.upi_ids \cup session.intel.crypto_wallets # {}
                  /\ session.intel.actionable >= 2
                  /\ session.agent_turns >= 5
                  /\ session.scammer_messages + session.agent_turns >= 10
                  /\ Elapsed60
               \/ /\ session.intel.actionable >= 3
                  /\ session.agent_turns >= 10
                  /\ Elapsed60
               \/ /\ session.scammer_messages >= 12
                  /\ session.agent_turns >= 10
                  /\ Elapsed60)

\* C3 witness: True by the payment condition alone, on a wallet address, at
\* five agent turns.
C3_Witness ==
    /\ verdict = Some(TRUE)
    /\ session.agent_turns = 5
    /\ session.intel.upi_ids = {}
    /\ session.intel.actionable = 2

\* C19: once should_finalize has returned True for a session, every later
\* evaluation returns True while the session is not finalized.  The session
\* of the model changes only as the claim provides: the detection flag and
\* the first-scam timestamp are set once, the clock and the counts only grow.
C19_StableOnceTrue ==
    (returned_true /\ verdict # None /\ ~session.finalized)
        => verdict = Some(TRUE)

\* C19 witness: a second evaluation returned True, below the 12-turn cap,
\* after the session had changed since the first one.
C19_Witness ==
    /\ true_evals = 2
    /\ verdict = Some(TRUE)
    /\ ~session.finalized
    /\ session.agent_turns < 12

----------------------------------------------------------------------------
(* Properties of the analyzer *)

NoDuplicates(seq) ==
    \A i, j \in DOMAIN seq : i # j => seq[i] # seq[j]

Fused == an.llm_result # None

\* C8: the result of analyze has its score in [0, 10], its confidence in
\* [0, 1] and no indicator twice, rule-only or fused.
C8_ResultInRange ==
    an.pc = "end" =>
        /\ an.result[1].score >= 0 /\ an.result[1].score <= 10000
        /\ an.result[1].confidence >= 0 /\ an.result[1].confidence <= 1000
        /\ NoDuplicates(an.result[1].indicators)

\* C8 witness: a fused result where the rules add up to 11.0, the judgment
\* says 15 with confidence 1.7 and names "urgency" twice.
C8_Witness ==
    /\ an.pc = "end" /\ Fused
    /\ RuleScore(an.text) = 11000
    /\ an.raw.payload.riskScore = JNum(15000)
    /\ an.raw.payload.confidence = JNum(1700)
    /\ an.raw.payload.indicators = JList(<<" urgency ", "urgency", "   ">>)
    /\ an.result[1].score = 10000 /\ an.result[1].confidence = 1000

\* round(clamp(v, 0, 10), 2) of v = num / 10 thousandths, as the claim words it
RoundClamp10(num) ==
    IF num <= 0 THEN 0
    ELSE IF num >= 100000 THEN 10000
    ELSE 10 * RoundHalfEven(num, 100)

\* C9: with a judgment result the fused score is
\* round(clamp(0.6 * rule + 0.4 * judgment, 0, 10), 2) and at most
\* 0.6 * rule + 4.0, whatever riskScore the payload carried.
C9_FusedScoreBound ==
    (an.pc = "end" /\ Fused) =>
        /\ an.result[1].score =
              RoundClamp10(6 * an.rule_result[1].score
                           + 4 * an.llm_result[1].score)
        /\ 10 * an.result[1].score <= 6 * an.rule_result[1].score + 40000

\* C9 witness: riskScore 15 on a text no rule matches gives exactly 4.0.
C9_Witness ==
    /\ an.pc = "end" /\ Fused
    /\ an.raw.payload.riskScore = JNum(15000)
    /\ an.rule_result[1].score = 0
    /\ an.result[1].score = 4000

\* the provider outcomes that give no usable judgment
Credentialed == HasKey(an.openai) \/ HasKey(an.gemini)
Coerces(value) == FloatOf(GetOr(value, JNum(0))).ok
NoUsableJudgment ==
    \/ ~Credentialed
    \/ an.raw.kind \in {"none", "empty", "prose", "json_array"}
    \/ /\ an.raw.kind = "json_object"
       /\ \/ ~Coerces(an.raw.payload.riskScore)
          \/ ~Coerces(an.raw.payload.confidence)

\* C10: when the providers give no usable judgment, analyze raises nothing
\* and returns exactly the rule evaluator's result.
C10_DegradesToRuleOnly ==
    (an.pc \in {"end", "raised"} /\ NoUsableJudgment) =>
        /\ an.pc = "end"
        /\ an.result = Some(RuleBasedAnalysis(an.text))

\* C10 without the integers float() cannot hold: the part of the claim that
\* the code keeps.
C10_ExceptOverflow ==
    (/\ an.pc \in {"end", "raised"}
     /\ NoUsableJudgment
     /\ an.raw.payload.riskScore # JBigInt)
        => /\ an.pc = "end"
           /\ an.result = Some(RuleBasedAnalysis(an.text))

\* both providers are configured with credentials
BothCredentialed == HasKey(an.openai) /\ HasKey(an.gemini)

\* _llm_analysis is over without a judgment result
GaveUpOnJudgment ==
    an.pc \in {"fuse", "end", "raised"} /\ an.llm_result = None

\* C11: with both providers credentialed and a text to judge, the engine
\* gives up on a judgment result only after the secondary provider was tried
\* too, and no provider is called more than once in one analyze call.
C11_SecondaryTriedBeforeGivingUp ==
    /\ an.openai_calls <= 1 /\ an.gemini_calls <= 1
    /\ (BothCredentialed /\ an.text # {} /\ GaveUpOnJudgment)
          => (an.openai_calls = 1 /\ an.gemini_calls = 1)

\* C11, the part the code keeps: the secondary provider is called exactly when
\* the primary one is not credentialed or answered nothing (None or ""), and
\* no provider is called more than once.
C11_FallbackOnEmptyOnly ==
    /\ an.openai_calls <= 1 /\ an.gemini_calls <= 1
    /\ an.pc \in {"parse", "fuse", "end", "raised"}
          => /\ an.gemini_calls = 1 =>
                   /\ HasKey(an.gemini) /\ an.text # {}
                   /\ an.openai_calls = 1 => HasKey(an.openai)
             /\ (BothCredentialed /\ an.openai_calls = 1 /\ an.gemini_calls = 0)
                   => ~Falsy(an.raw)

\* the fixed vocabulary of indicator tags
IndicatorVocabulary ==
    {"urgency", "authority_impersonation", "reward_bait",
     "verification_or_secret_request", "external_link_pressure",
     "alternate_channel_push"}

\* C15: every indicator of every result of analyze, rule-only or fused, is
\* one of the six tags of the vocabulary, whatever the provider returned.
C15_IndicatorsInVocabulary ==
    an.pc = "end" =>
        Elements(an.result[1].indicators) \subseteq IndicatorVocabulary

\* C15, the part the code keeps: a rule-only result, and the rule part of a
\* fused one, name tags of the vocabulary only; a fused result names, beside
\* those, exactly the stripped non-empty strings the provider listed.
C15_RuleIndicatorsInVocabulary ==
    an.pc = "end" =>
        /\ Elements(an.rule_result[1].indicators) \subseteq IndicatorVocabulary
        /\ ~Fused => an.result = an.rule_result
        /\ Fused => Elements(an.result[1].indicators)
                       = Elements(an.rule_result[1].indicators)
                         \cup Elements(LlmIndicators(an.raw.payload.indicators))

----------------------------------------------------------------------------
(* Properties of the strategy classifier *)

\* a <= b on floats
Le(a, b) == Lt(a, b) \/ (a.k # "nan" /\ a = b)

\* the tiers from least to most aggressive
TierRank(tier) ==
    CASE tier = "Neutral" -> 1
      [] tier = "Suspicious" -> 2
      [] tier = "Extraction Mode" -> 3
      [] tier = "Intelligence Harvest Mode" -> 4
      [] tier = "High Confidence Scam" -> 5
      [] OTHER -> 0

\* the values the first call worked with
Score1 ==
    IF strat.rolling_score # None THEN strat.rolling_score[1]
    ELSE session.rolling_scam_score
Detected1 ==
    IF strat.scam_detected # None THEN strat.scam_detected[1]
    ELSE session.scam_detected
Actionable1 ==
    IF strat.actionable_count # None THEN strat.actionable_count[1]
    ELSE session.intel.actionable
Turns1 ==
    IF strat.agent_turns # None THEN strat.agent_turns[1]
    ELSE session.agent_turns

\* C12: with actionable_count, detected and turns held fixed, a call with
\* score s2 >= s1 never returns an earlier tier than the call with s1, in the
\* order Neutral < Suspicious < Extraction Mode < Intelligence Harvest Mode
\* < High Confidence Scam.
C12_MonotonicInScore ==
    (strat.pc = "compared" /\ Le(Score1, strat.rolling_score2[1]))
        => TierRank(strat.result) <= TierRank(strat.result2)

\* C12 witness: undetected, 2.999 gave Neutral and infinity gave High
\* Confidence Scam.
C12_Witness ==
    /\ strat.pc = "compared"
    /\ Score1 = Fin(2999, 1) /\ strat.rolling_score2 = Some(PosInf)
    /\ strat.result = "Neutral" /\ strat.result2 = "High Confidence Scam"

\* x < t thousandths, for the numbers of the claim's chain
Below(x, t) == x.k = "ninf" \/ (x.k = "fin" /\ x.n < t * x.d)

\* the tier of the first matching rule, as the claim lists them
FirstMatch(score, actionable, detected, turns) ==
    IF Below(score, 3000) /\ ~detected THEN "Neutral"
    ELSE IF Below(score, 6000) /\ ~detected THEN "Suspicious"
    ELSE IF Below(score, 10000) THEN "Extraction Mode"
    ELSE IF actionable >= 3 \/ turns >= 5 THEN "Intelligence Harvest Mode"
    ELSE "High Confidence Scam"

\* C13: every call returns the tier of the first matching rule for the
\* arguments passed, or the session's values where none is passed; the same
\* inputs give the same tier; and the call leaves the session as it was.
C13_FirstMatchingRule ==
    /\ [](/\ strat.pc \in {"called", "compared"} =>
               /\ TierRank(strat.result) \in 1..5
               /\ strat.result
                     = FirstMatch(Score1, Actionable1, Detected1, Turns1)
          /\ strat.pc = "compared" =>
               /\ strat.result2
                     = FirstMatch(strat.rolling_score2[1], Actionable1,
                                  Detected1, Turns1)
               /\ strat.rolling_score2[1] = Score1
                     => strat.result2 = strat.result)
    /\ [][strat'.pc # strat.pc => session' = session]_vars

\* C13 witness: the session says detected, five turns and score 12, the call
\* passes False, 0 turns, 0 categories and score 0, and the tier is Neutral.
C13_Witness ==
    /\ strat.pc = "called"
    /\ session.scam_detected /\ session.agent_turns = 5
    /\ session.rolling_scam_score = Fin(12000, 1)
    /\ strat.scam_detected = Some(FALSE) /\ strat.agent_turns = Some(0)
    /\ strat.actionable_count = Some(0)
    /\ strat.rolling_score = Some(Fin(0, 1))
    /\ strat.result = "Neutral"

====
